---- MODULE Spec2Model ----
(***************************************************************************)
(* Model of daphne's command line interface, daphne/cli.py:                *)
(* CommandLineInterface.run() as a sequential state machine, one action    *)
(* per statement group of run(), with the helpers it calls as operators.   *)
(*                                                                         *)
(* Data representation.                                                    *)
(*   - An optional value is a sequence of length at most one: None is <<>> *)
(*     and Some(x) is <<x>>.  None stands for Python's None and for the    *)
(*     False default of the string options --proxy-headers-host/-port.     *)
(*   - Strings that end up in the endpoint list (host, unix socket path,   *)
(*     --endpoint strings, descriptors) are sequences of character codes,  *)
(*     so that sorted() can be modelled as the code-point order Python     *)
(*     uses.  All other strings are TLA+ strings.                          *)
(*   - Python truthiness of an optional string is Truthy: given and of     *)
(*     length greater than zero.                                           *)
(***************************************************************************)
EXTENDS Integers, Sequences, FiniteSets, TLC

VARIABLES
    pc,                 \* position of run(): the next statement group
    argv,               \* the raw argument list run() is called with
    args,               \* the argparse Namespace (None before parse_args)
    log_level,          \* level handed to logging.basicConfig (None before)
    access_log_stream,  \* the local access_log_stream
    opened,             \* paths opened for append by run()
    cwd,                \* process working directory
    callback_module,    \* the local callback_module
    application,        \* the local application
    endpoints,          \* the local endpoints
    server,             \* self.server: None or the keyword arguments given
    server_runs,        \* number of calls of self.server.run()
    error,              \* the exception run() ended with, None if none
    events,             \* history of the statement groups completed
    hook_calls          \* history of the hooks run() has invoked

vars == << pc, argv, args, log_level, access_log_stream, opened, cwd,
           callback_module, application, endpoints, server, server_runs,
           error, events, hook_calls >>

None == <<>>
Some(x) == <<x>>
Val(o) == o[1]
Truthy(o) == o # None /\ Len(Val(o)) > 0

(***************************************************************************)
(* Bounds of the model.                                                    *)
(***************************************************************************)
\* at most this many --endpoint options on the command line
MaxEndpointStrings == 2
\* at most this many option groups are given on the command line; the
\* groups are: binding (-b -p -u --fd -e), -v, --access-log, proxy headers,
\* --callback-module, --chdir, and a missing or unloadable application
MaxOptionGroups == 2

(***************************************************************************)
(* Program constants.                                                      *)
(***************************************************************************)
\* "127.0.0.1"
DEFAULT_HOST == <<49, 50, 55, 46, 48, 46, 48, 46, 49>>
DEFAULT_PORT == 8000

(***************************************************************************)
(* Character-code strings used by the inputs.                              *)
(***************************************************************************)
\* "0.0.0.0"
HostAny == <<48, 46, 48, 46, 48, 46, 48>>
\* "a"
SockPath == <<97>>
\* "unix:a", the descriptor also derived from -u a
EpUnixA == <<117, 110, 105, 120, 58, 97>>
\* "ssl:443"
EpSsl == <<115, 115, 108, 58, 52, 52, 51>>

StdOut == "sys.stdout"
InitialDir == "/app"

(***************************************************************************)
(* The environment run() executes in: which files can be opened, which     *)
(* directories exist, which modules can be imported and what they expose.  *)
(***************************************************************************)
OpenablePaths == {"access.log"}
Directories == {"django-site"}
Modules == [ hooks_none  |-> [when_init |-> FALSE, when_ready |-> FALSE],
             hooks_init  |-> [when_init |-> TRUE,  when_ready |-> FALSE],
             hooks_ready |-> [when_init |-> FALSE, when_ready |-> TRUE],
             hooks_both  |-> [when_init |-> TRUE,  when_ready |-> TRUE] ]
Applications == {"app:instance"}

(***************************************************************************)
(* Command lines.  Each field is None when the option is not given.        *)
(***************************************************************************)
RECURSIVE SeqsUpTo(_, _)
SeqsUpTo(S, n) ==
    IF n = 0 THEN {<<>>}
    ELSE LET shorter == SeqsUpTo(S, n - 1)
         IN  shorter \cup {Append(s, x) : s \in shorter, x \in S}

Hosts == {None, Some(<<>>), Some(HostAny)}
Ports == {None, Some(0), Some(80)}
UnixSockets == {None, Some(SockPath)}
FileDescriptors == {None, Some(0)}
EndpointStringLists == SeqsUpTo({EpUnixA, EpSsl}, MaxEndpointStrings)
\* without -v the verbosity is the default, 1
Verbosities == {None, Some(-1), Some(0), Some(2), Some(3), Some(4)}
AccessLogs == {None, Some(""), Some("-"), Some("access.log"), Some("/nodir/access.log")}
ProxyHostHeaders == {None, Some(""), Some("X-Real-IP")}
ProxyPortHeaders == {None, Some("X-Real-Port")}
CallbackModules == {None, Some("no_such_module")} \cup {Some(m) : m \in DOMAIN Modules}
Chdirs == {None, Some("django-site"), Some("nodir")}
ApplicationArgs == {None, Some("app:instance"), Some("app:missing")}

OptionGroups == {"binding", "verbosity", "access_log", "proxy", "callback", "chdir", "application"}

\* the values of an option: all of them when its group is given, else absent
Pick(G, g, S, absent) == IF g \in G THEN S ELSE {absent}

CommandLines ==
    UNION { [ host : Pick(G, "binding", Hosts, None),
              port : Pick(G, "binding", Ports, None),
              unix_socket : Pick(G, "binding", UnixSockets, None),
              file_descriptor : Pick(G, "binding", FileDescriptors, None),
              socket_strings : Pick(G, "binding", EndpointStringLists, <<>>),
              verbosity : Pick(G, "verbosity", Verbosities, None),
              access_log : Pick(G, "access_log", AccessLogs, None),
              proxy_headers : Pick(G, "proxy", BOOLEAN, FALSE),
              proxy_headers_host : Pick(G, "proxy", ProxyHostHeaders, None),
              proxy_headers_port : Pick(G, "proxy", ProxyPortHeaders, None),
              callback_module : Pick(G, "callback", CallbackModules, None),
              chdir : Pick(G, "chdir", Chdirs, None),
              application : Pick(G, "application", ApplicationArgs, Some("app:instance")) ]
            : G \in {g \in SUBSET OptionGroups : Cardinality(g) <= MaxOptionGroups} }

(***************************************************************************)
(* parse_args: every option absent from the command line takes the default *)
(* its add_argument call declares.  The positional application is          *)
(* required: without it argparse exits with a usage error.                 *)
(***************************************************************************)
ParseFails(av) == av.application = None

ParseArgs(av) ==
    [ host |-> av.host,
      port |-> av.port,
      unix_socket |-> av.unix_socket,
      file_descriptor |-> av.file_descriptor,
      socket_strings |-> av.socket_strings,
      verbosity |-> IF av.verbosity = None THEN 1 ELSE Val(av.verbosity),
      access_log |-> av.access_log,
      log_fmt |-> "%(asctime)-15s %(levelname)-8s %(message)s",
      proxy_headers |-> av.proxy_headers,
      proxy_headers_host |-> av.proxy_headers_host,
      proxy_headers_port |-> av.proxy_headers_port,
      callback_module |-> av.callback_module,
      chdir |-> av.chdir,
      application |-> Val(av.application),
      http_timeout |-> None,
      websocket_timeout |-> 86400,
      websocket_connect_timeout |-> 5,
      ping_interval |-> 20,
      ping_timeout |-> 30,
      application_close_timeout |-> 10,
      root_path |-> "",
      server_name |-> "daphne" ]

(***************************************************************************)
(* The verbosity -> level dictionary of logging.basicConfig's argument.    *)
(***************************************************************************)
LogLevels == (0 :> "WARN") @@ (1 :> "INFO") @@ (2 :> "DEBUG") @@ (3 :> "DEBUG")

HasLogLevel(v) == v \in DOMAIN LogLevels

LogLevel(v) == LogLevels[v]

(***************************************************************************)
(* Access log: what run() does with args.access_log and args.verbosity.    *)
(* AccessLogPathToOpen is the path handed to open(path, "a", 1), None when  *)
(* nothing is opened; AccessLogStream is the stream that results.          *)
(***************************************************************************)
AccessLogPathToOpen(a) ==
    IF Truthy(a.access_log) /\ Val(a.access_log) # "-" THEN a.access_log ELSE None

\* variant: the default sink needs a verbosity above 1
AccessLogStream_AboveOne(a) ==
    IF Truthy(a.access_log)
    THEN IF Val(a.access_log) = "-" THEN Some(StdOut) ELSE Some(Val(a.access_log))
    ELSE IF a.verbosity > 1 THEN Some(StdOut) ELSE None

AccessLogStream(a) ==
    IF Truthy(a.access_log)
    THEN IF Val(a.access_log) = "-" THEN Some(StdOut) ELSE Some(Val(a.access_log))
    ELSE IF a.verbosity >= 1 THEN Some(StdOut) ELSE None

(***************************************************************************)
(* Host/port defaulting: the if/elif/elif chain over                       *)
(* any([host, port is not None, unix_socket, file_descriptor is not None,  *)
(* socket_strings]).  It assigns to args.host and args.port in place.      *)
(***************************************************************************)
AnyBindingOption(a) ==
    \/ Truthy(a.host)
    \/ a.port # None
    \/ Truthy(a.unix_socket)
    \/ a.file_descriptor # None
    \/ Len(a.socket_strings) > 0

\* variant: the port is tested for truth, so that port 0 counts as missing
PatchBindings_PortTruthiness(a) ==
    LET port_given == a.port # None /\ Val(a.port) # 0
    IN  IF ~(\/ Truthy(a.host)
             \/ port_given
             \/ Truthy(a.unix_socket)
             \/ a.file_descriptor # None
             \/ Len(a.socket_strings) > 0)
        THEN [a EXCEPT !.host = Some(DEFAULT_HOST), !.port = Some(DEFAULT_PORT)]
        ELSE IF Truthy(a.host) /\ ~port_given
        THEN [a EXCEPT !.port = Some(DEFAULT_PORT)]
        ELSE IF port_given /\ ~Truthy(a.host)
        THEN [a EXCEPT !.host = Some(DEFAULT_HOST)]
        ELSE a

\* variant: a TCP binding clears the unix socket, enforcing exclusivity
PatchBindings_ExclusiveTcp(a) ==
    IF ~AnyBindingOption(a)
    THEN [a EXCEPT !.host = Some(DEFAULT_HOST), !.port = Some(DEFAULT_PORT)]
    ELSE IF Truthy(a.host) /\ a.port = None
    THEN [a EXCEPT !.port = Some(DEFAULT_PORT), !.unix_socket = None]
    ELSE IF a.port # None /\ ~Truthy(a.host)
    THEN [a EXCEPT !.host = Some(DEFAULT_HOST), !.unix_socket = None]
    ELSE a

PatchBindings(a) ==
    IF ~AnyBindingOption(a)
    THEN [a EXCEPT !.host = Some(DEFAULT_HOST), !.port = Some(DEFAULT_PORT)]
    ELSE IF Truthy(a.host) /\ a.port = None
    THEN [a EXCEPT !.port = Some(DEFAULT_PORT)]
    ELSE IF a.port # None /\ ~Truthy(a.host)
    THEN [a EXCEPT !.host = Some(DEFAULT_HOST)]
    ELSE a

(***************************************************************************)
(* Strings as sequences of character codes: decimal formatting (%d) and    *)
(* the order sorted() puts Python strings in.                              *)
(***************************************************************************)
RECURSIVE Decimal(_)
Decimal(n) ==
    IF n < 10 THEN <<48 + n>> ELSE Decimal(n \div 10) \o <<48 + (n % 10)>>

RECURSIVE StrLeq(_, _)
StrLeq(s, t) ==
    IF s = <<>> THEN TRUE
    ELSE IF t = <<>> THEN FALSE
    ELSE IF Head(s) # Head(t) THEN Head(s) < Head(t)
    ELSE StrLeq(Tail(s), Tail(t))

\* insertion behind the elements not greater than x: a stable sort
RECURSIVE Insert(_, _)
Insert(x, sorted) ==
    IF sorted = <<>> THEN <<x>>
    ELSE IF StrLeq(Head(sorted), x) THEN <<Head(sorted)>> \o Insert(x, Tail(sorted))
    ELSE <<x>> \o sorted

RECURSIVE SortedList(_)
SortedList(l) ==
    IF l = <<>> THEN <<>> ELSE Insert(l[Len(l)], SortedList(SubSeq(l, 1, Len(l) - 1)))

(***************************************************************************)
(* daphne.endpoints.build_endpoint_description_strings, whose source is    *)
(* not part of the files modelled: one descriptor for each of host+port,   *)
(* unix_socket and file_descriptor that is populated, in that order.       *)
(***************************************************************************)
\* "tcp:port=<port>:interface=<host>"
TcpDescription(host, port) ==
    <<116, 99, 112, 58, 112, 111, 114, 116, 61>> \o Decimal(port)
        \o <<58, 105, 110, 116, 101, 114, 102, 97, 99, 101, 61>> \o host

\* "unix:<path>"
UnixDescription(path) == <<117, 110, 105, 120, 58>> \o path

\* "fd:fileno=<fd>"
FdDescription(fd) == <<102, 100, 58, 102, 105, 108, 101, 110, 111, 61>> \o Decimal(fd)

BuildEndpointDescriptionStrings(host, port, unix_socket, file_descriptor) ==
    (IF Truthy(host) /\ port # None
        THEN <<TcpDescription(Val(host), Val(port))>> ELSE <<>>)
    \o (IF Truthy(unix_socket) THEN <<UnixDescription(Val(unix_socket))>> ELSE <<>>)
    \o (IF file_descriptor # None THEN <<FdDescription(Val(file_descriptor))>> ELSE <<>>)

(***************************************************************************)
(* endpoints = sorted(args.socket_strings + endpoints)                     *)
(***************************************************************************)
\* variant: the two lists are concatenated and not sorted
MergeEndpoints_Unsorted(socket_strings, built) == socket_strings \o built

MergeEndpoints(socket_strings, built) == SortedList(socket_strings \o built)

ResolveEndpoints(a) ==
    MergeEndpoints(a.socket_strings,
                   BuildEndpointDescriptionStrings(a.host, a.port, a.unix_socket,
                                                   a.file_descriptor))

(***************************************************************************)
(* The proxy header helpers.  A call either returns a value or raises.     *)
(***************************************************************************)
Return(v) == [raised |-> None, value |-> v]
Raise(e) == [raised |-> Some(e), value |-> None]

\* _check_proxy_headers_passed: TRUE when it returns, FALSE when it raises
CheckProxyHeadersPassed(a) == a.proxy_headers

\* variant: --proxy-headers is tested first and the custom header is ignored
GetForwardedHost_IgnoresCustom(a) ==
    IF a.proxy_headers THEN Return(Some("X-Forwarded-For"))
    ELSE IF Truthy(a.proxy_headers_host) THEN Raise("ArgumentError")
    ELSE Return(None)

GetForwardedHost(a) ==
    IF Truthy(a.proxy_headers_host)
    THEN IF CheckProxyHeadersPassed(a)
         THEN Return(a.proxy_headers_host) ELSE Raise("ArgumentError")
    ELSE IF a.proxy_headers THEN Return(Some("X-Forwarded-For")) ELSE Return(None)

GetForwardedPort(a) ==
    IF Truthy(a.proxy_headers_port)
    THEN IF CheckProxyHeadersPassed(a)
         THEN Return(a.proxy_headers_port) ELSE Raise("ArgumentError")
    ELSE IF a.proxy_headers THEN Return(Some("X-Forwarded-Port")) ELSE Return(None)

ForwardedProtoHeader(a) == IF a.proxy_headers THEN Some("X-Forwarded-Proto") ELSE None

(***************************************************************************)
(* Attribute lookups on the callback module: getattr(module, name, None),  *)
(* with module possibly None.  A hook is referred to by <<module, name>>.  *)
(***************************************************************************)
\* variant: the on-init lookup asks for the on-ready hook
InitCallable_LooksUpReady(module) ==
    IF module # None /\ Modules[Val(module)].when_ready
    THEN Some(<<Val(module), "when_ready">>) ELSE None

InitCallable(module) ==
    IF module # None /\ Modules[Val(module)].when_init
    THEN Some(<<Val(module), "when_init">>) ELSE None

ReadyCallable(module) ==
    IF module # None /\ Modules[Val(module)].when_ready
    THEN Some(<<Val(module), "when_ready">>) ELSE None

\* AccessLogGenerator(access_log_stream) if access_log_stream else None
ActionLogger(stream) == IF stream # None THEN Some(<<"AccessLogGenerator", Val(stream)>>) ELSE None

\* the keyword arguments of self.server_class(...)
ServerArguments(a, app, eps, stream, module) ==
    [ application |-> app,
      endpoints |-> eps,
      http_timeout |-> a.http_timeout,
      ping_interval |-> a.ping_interval,
      ping_timeout |-> a.ping_timeout,
      websocket_timeout |-> a.websocket_timeout,
      websocket_connect_timeout |-> a.websocket_connect_timeout,
      websocket_handshake_timeout |-> a.websocket_connect_timeout,
      application_close_timeout |-> a.application_close_timeout,
      action_logger |-> ActionLogger(stream),
      root_path |-> a.root_path,
      verbosity |-> a.verbosity,
      proxy_forwarded_address_header |-> GetForwardedHost(a).value,
      proxy_forwarded_port_header |-> GetForwardedPort(a).value,
      proxy_forwarded_proto_header |-> ForwardedProtoHeader(a),
      server_name |-> a.server_name,
      ready_callable |-> ReadyCallable(module) ]

(***************************************************************************)
(* State after construction of CommandLineInterface, at the call of run(). *)
(***************************************************************************)
Init ==
    /\ pc = "parse"
    /\ argv \in CommandLines
    /\ args = None
    /\ log_level = None
    /\ access_log_stream = None
    /\ opened = {}
    /\ cwd = InitialDir
    /\ callback_module = None
    /\ application = None
    /\ endpoints = None
    /\ server = None
    /\ server_runs = 0
    /\ error = None
    /\ events = <<>>
    /\ hook_calls = <<>>

\* an exception leaves run(): nothing catches it
Fail(e) == pc' = "failed" /\ error' = Some(e) /\ UNCHANGED events

\* a statement group completes and control moves on
Step(name, next) == pc' = next /\ events' = Append(events, name) /\ UNCHANGED error

(***************************************************************************)
(* args = self.parser.parse_args(args)                                     *)
(***************************************************************************)
Parse ==
    /\ pc = "parse"
    /\ IF ParseFails(argv)
       THEN Fail("SystemExit") /\ UNCHANGED args
       ELSE args' = ParseArgs(argv) /\ Step("parse", "logging")
    /\ UNCHANGED << argv, log_level, access_log_stream, opened, cwd, callback_module,
                    application, endpoints, server, server_runs, hook_calls >>

\* variant: an unknown verbosity falls back to DEBUG, as dict.get would
ConfigureLogging_DefaultLevel ==
    /\ pc = "logging"
    /\ log_level' = IF HasLogLevel(args.verbosity)
                    THEN Some(LogLevel(args.verbosity)) ELSE Some("DEBUG")
    /\ Step("logging", "access_log")
    /\ UNCHANGED << argv, args, access_log_stream, opened, cwd, callback_module,
                    application, endpoints, server, server_runs, hook_calls >>

(***************************************************************************)
(* logging.basicConfig(level={...}[args.verbosity], format=args.log_fmt)   *)
(***************************************************************************)
ConfigureLogging ==
    /\ pc = "logging"
    /\ IF HasLogLevel(args.verbosity)
       THEN log_level' = Some(LogLevel(args.verbosity)) /\ Step("logging", "access_log")
       ELSE Fail("KeyError") /\ UNCHANGED log_level
    /\ UNCHANGED << argv, args, access_log_stream, opened, cwd, callback_module,
                    application, endpoints, server, server_runs, hook_calls >>

(***************************************************************************)
(* The access log stream: stdout, a file opened for append with line       *)
(* buffering, or None.                                                     *)
(***************************************************************************)
ResolveAccessLog ==
    /\ pc = "access_log"
    /\ LET path == AccessLogPathToOpen(args)
       IN  IF path # None /\ Val(path) \notin OpenablePaths
           THEN Fail("OSError") /\ UNCHANGED << access_log_stream, opened >>
           ELSE /\ access_log_stream' = AccessLogStream(args)
                /\ opened' = IF path = None THEN opened
                             ELSE opened \cup {[path |-> Val(path), mode |-> "a", buffering |-> 1]}
                /\ Step("access_log", "chdir")
    /\ UNCHANGED << argv, args, log_level, cwd, callback_module,
                    application, endpoints, server, server_runs, hook_calls >>

(***************************************************************************)
(* if args.chdir: os.chdir(args.chdir)                                     *)
(***************************************************************************)
ChangeDirectory ==
    /\ pc = "chdir"
    /\ IF Truthy(args.chdir)
       THEN IF Val(args.chdir) \in Directories
            THEN cwd' = Val(args.chdir) /\ Step("chdir", "callback")
            ELSE Fail("FileNotFoundError") /\ UNCHANGED cwd
       ELSE UNCHANGED cwd /\ Step("chdir", "callback")
    /\ UNCHANGED << argv, args, log_level, access_log_stream, opened, callback_module,
                    application, endpoints, server, server_runs, hook_calls >>

(***************************************************************************)
(* callback_module = import_module(args.callback_module), when given       *)
(***************************************************************************)
ImportCallbackModule ==
    /\ pc = "callback"
    /\ IF args.callback_module # None
       THEN IF Val(args.callback_module) \in DOMAIN Modules
            THEN callback_module' = args.callback_module /\ Step("callback", "init_hook")
            ELSE Fail("ModuleNotFoundError") /\ UNCHANGED callback_module
       ELSE callback_module' = None /\ Step("callback", "init_hook")
    /\ UNCHANGED << argv, args, log_level, access_log_stream, opened, cwd,
                    application, endpoints, server, server_runs, hook_calls >>

(***************************************************************************)
(* init_callable = getattr(callback_module, "when_init", None);            *)
(* if init_callable: init_callable()                                       *)
(***************************************************************************)
RunWhenInit ==
    /\ pc = "init_hook"
    /\ hook_calls' = IF InitCallable(callback_module) # None
                     THEN Append(hook_calls, Val(InitCallable(callback_module)))
                     ELSE hook_calls
    /\ Step("init_hook", "application")
    /\ UNCHANGED << argv, args, log_level, access_log_stream, opened, cwd, callback_module,
                    application, endpoints, server, server_runs >>

\* variant: a failed import is recorded and run() carries on
ImportApplication_ContinuesAfterError ==
    /\ pc = "application"
    /\ application' = Some(args.application)
    /\ pc' = "bindings"
    /\ events' = Append(events, "application")
    /\ error' = IF args.application \in Applications THEN error ELSE Some("ImportError")
    /\ UNCHANGED << argv, args, log_level, access_log_stream, opened, cwd, callback_module,
                    endpoints, server, server_runs, hook_calls >>

(***************************************************************************)
(* application = guarantee_single_callable(import_by_path(args.application)) *)
(***************************************************************************)
ImportApplication ==
    /\ pc = "application"
    /\ IF args.application \in Applications
       THEN application' = Some(args.application) /\ Step("application", "bindings")
       ELSE Fail("ImportError") /\ UNCHANGED application
    /\ UNCHANGED << argv, args, log_level, access_log_stream, opened, cwd, callback_module,
                    endpoints, server, server_runs, hook_calls >>

(***************************************************************************)
(* Set up port/host bindings: the defaults are patched into args.          *)
(***************************************************************************)
SetUpBindings ==
    /\ pc = "bindings"
    /\ args' = PatchBindings(args)
    /\ Step("bindings", "endpoints")
    /\ UNCHANGED << argv, log_level, access_log_stream, opened, cwd, callback_module,
                    application, endpoints, server, server_runs, hook_calls >>

(***************************************************************************)
(* Build the descriptors, merge them with the --endpoint strings, sort.    *)
(***************************************************************************)
BuildEndpoints ==
    /\ pc = "endpoints"
    /\ endpoints' = ResolveEndpoints(args)
    /\ Step("endpoints", "server")
    /\ UNCHANGED << argv, args, log_level, access_log_stream, opened, cwd, callback_module,
                    application, server, server_runs, hook_calls >>

\* variant: the server is constructed before the proxy headers are checked
ConstructServer_ChecksAfterConstruction ==
    /\ pc = "server"
    /\ server' = Some(ServerArguments(args, Val(application), endpoints,
                                      access_log_stream, callback_module))
    /\ IF GetForwardedHost(args).raised # None
       THEN Fail(Val(GetForwardedHost(args).raised))
       ELSE IF GetForwardedPort(args).raised # None
       THEN Fail(Val(GetForwardedPort(args).raised))
       ELSE Step("server", "run")
    /\ UNCHANGED << argv, args, log_level, access_log_stream, opened, cwd, callback_module,
                    application, endpoints, server_runs, hook_calls >>

(***************************************************************************)
(* self.server = self.server_class(...): the keyword arguments are         *)
(* evaluated first, the proxy header helpers among them, and an exception  *)
(* raised by a helper leaves run() before server_class is called.          *)
(***************************************************************************)
ConstructServer ==
    /\ pc = "server"
    /\ IF GetForwardedHost(args).raised # None
       THEN Fail(Val(GetForwardedHost(args).raised)) /\ UNCHANGED server
       ELSE IF GetForwardedPort(args).raised # None
       THEN Fail(Val(GetForwardedPort(args).raised)) /\ UNCHANGED server
       ELSE /\ server' = Some(ServerArguments(args, Val(application), endpoints,
                                              access_log_stream, callback_module))
            /\ Step("server", "run")
    /\ UNCHANGED << argv, args, log_level, access_log_stream, opened, cwd, callback_module,
                    application, endpoints, server_runs, hook_calls >>

(***************************************************************************)
(* self.server.run()                                                       *)
(***************************************************************************)
RunServer ==
    /\ pc = "run"
    /\ server_runs' = server_runs + 1
    /\ Step("run", "serving")
    /\ UNCHANGED << argv, args, log_level, access_log_stream, opened, cwd, callback_module,
                    application, endpoints, server, hook_calls >>

Next ==
    \/ Parse
    \/ ConfigureLogging
    \/ ResolveAccessLog
    \/ ChangeDirectory
    \/ ImportCallbackModule
    \/ RunWhenInit
    \/ ImportApplication
    \/ SetUpBindings
    \/ BuildEndpoints
    \/ ConstructServer
    \/ RunServer

Spec == Init /\ [][Next]_vars

(***************************************************************************)
(* Vocabulary of the properties.                                           *)
(*                                                                         *)
(* An option counts as supplied (set, given) the way run() tests it: a     *)
(* string option when its value is non-empty, --port and --fd when a       *)
(* value is present, zero included, and --endpoint when the list is        *)
(* non-empty.  An option given the empty string counts as omitted.         *)
(***************************************************************************)
Done(step) == \E i \in DOMAIN events : events[i] = step

Parsed == ParseArgs(argv)

Count(x, l) == Cardinality({i \in DOMAIN l : l[i] = x})

Range(l) == {l[i] : i \in DOMAIN l}

StepsBeforeServer ==
    << "parse", "logging", "access_log", "chdir", "callback", "init_hook",
       "application", "bindings", "endpoints" >>

\* the steps the amended C8 places before the proxy header error
StepsBeforeProxyCheck == SubSeq(StepsBeforeServer, 1, Len(StepsBeforeServer) - 2)

ProxyError == error = Some("ArgumentError")

(***************************************************************************)
(* C1.  When proxy_headers_host or proxy_headers_port is set and           *)
(* proxy_headers is false, run() fails with the proxy header error, and at *)
(* the moment of failure no endpoint resolution (host/port defaulting,     *)
(* descriptor building, merge and sort) has been performed and no server   *)
(* has been constructed or started.                                        *)
(***************************************************************************)
C1_ProxyErrorBeforeEndpointResolution ==
    ProxyError =>
        /\ ~Parsed.proxy_headers
        /\ Truthy(Parsed.proxy_headers_host) \/ Truthy(Parsed.proxy_headers_port)
        /\ ~Done("bindings")
        /\ ~Done("endpoints")
        /\ args = Parsed
        /\ endpoints = None
        /\ server = None
        /\ server_runs = 0

(***************************************************************************)
(* C2.  Host/port defaulting.  With P the parsed arguments, once the       *)
(* bindings are set up: (1) nothing of host, port, unix_socket,            *)
(* file_descriptor, --endpoint supplied: host 127.0.0.1 and port 8000, and *)
(* the endpoint list is the single TCP descriptor of 127.0.0.1:8000;       *)
(* (2) host supplied, port omitted: port 8000, host as supplied;           *)
(* (3) port supplied (0 included), host omitted: host 127.0.0.1, port as   *)
(* supplied; (4) otherwise host and port go to the descriptor builder as   *)
(* parsed.                                                                 *)
(***************************************************************************)
C2_NothingSupplied(p) ==
    /\ ~Truthy(p.host)
    /\ p.port = None
    /\ ~Truthy(p.unix_socket)
    /\ p.file_descriptor = None
    /\ p.socket_strings = <<>>

C2_HostPortDefaulting ==
    Done("bindings") =>
        LET p == Parsed
            loopback == <<49, 50, 55, 46, 48, 46, 48, 46, 49>>
        IN  /\ C2_NothingSupplied(p) =>
                /\ args.host = Some(loopback)
                /\ args.port = Some(8000)
                /\ Done("endpoints") => endpoints = <<TcpDescription(loopback, 8000)>>
            /\ (~C2_NothingSupplied(p) /\ Truthy(p.host) /\ p.port = None) =>
                /\ args.host = p.host
                /\ args.port = Some(8000)
            /\ (~C2_NothingSupplied(p) /\ p.port # None /\ ~Truthy(p.host)) =>
                /\ args.host = Some(loopback)
                /\ args.port = p.port
            /\ (~C2_NothingSupplied(p) /\ (Truthy(p.host) <=> p.port # None)) =>
                /\ args.host = p.host
                /\ args.port = p.port

\* port 0 without host: the endpoint list is built for 127.0.0.1, port 0
C2_Witness ==
    /\ Done("endpoints")
    /\ Parsed.port = Some(0)
    /\ Parsed.host = None
    /\ args.host = Some(DEFAULT_HOST)
    /\ args.port = Some(0)

(***************************************************************************)
(* C3.  The endpoint list is the sorted (non-decreasing) merge of the      *)
(* --endpoint strings and the descriptors of the populated bind            *)
(* mechanisms: each string occurs in it exactly as often as in the two     *)
(* inputs together, and nothing else occurs.                               *)
(***************************************************************************)
C3_Derived ==
    (IF Truthy(args.host) /\ args.port # None
        THEN <<TcpDescription(Val(args.host), Val(args.port))>> ELSE <<>>)
    \o (IF Truthy(Parsed.unix_socket)
        THEN <<UnixDescription(Val(Parsed.unix_socket))>> ELSE <<>>)
    \o (IF Parsed.file_descriptor # None
        THEN <<FdDescription(Val(Parsed.file_descriptor))>> ELSE <<>>)

C3_SortedMerge ==
    Done("endpoints") =>
        /\ \A i \in 1..(Len(endpoints) - 1) : StrLeq(endpoints[i], endpoints[i + 1])
        /\ Len(endpoints) = Len(Parsed.socket_strings) + Len(C3_Derived)
        /\ \A s \in Range(endpoints) \cup Range(Parsed.socket_strings) \cup Range(C3_Derived) :
               Count(s, endpoints) = Count(s, Parsed.socket_strings) + Count(s, C3_Derived)

\* all three bind mechanisms and two --endpoint strings, one of them equal to
\* a derived descriptor, given in an order the sort has to change
C3_Witness ==
    /\ Done("endpoints")
    /\ Len(endpoints) = 5
    /\ Count(EpUnixA, endpoints) = 2
    /\ Parsed.socket_strings = <<EpUnixA, EpSsl>>

(***************************************************************************)
(* C4.  Proxy header resolution, whenever it does not fail.  With          *)
(* proxy_headers true: forwarded-for is proxy_headers_host if set and      *)
(* otherwise "X-Forwarded-For", forwarded-port is proxy_headers_port if    *)
(* set and otherwise "X-Forwarded-Port", forwarded-proto is                *)
(* "X-Forwarded-Proto".  With proxy_headers false and neither header set:  *)
(* all three are absent.                                                   *)
(***************************************************************************)
C4_ProxyHeaderResolution ==
    server # None =>
        LET p == Parsed
            s == Val(server)
        IN  /\ p.proxy_headers =>
                /\ s.proxy_forwarded_address_header =
                       IF Truthy(p.proxy_headers_host) THEN p.proxy_headers_host
                       ELSE Some("X-Forwarded-For")
                /\ s.proxy_forwarded_port_header =
                       IF Truthy(p.proxy_headers_port) THEN p.proxy_headers_port
                       ELSE Some("X-Forwarded-Port")
                /\ s.proxy_forwarded_proto_header = Some("X-Forwarded-Proto")
            /\ (/\ ~p.proxy_headers
                /\ ~Truthy(p.proxy_headers_host)
                /\ ~Truthy(p.proxy_headers_port)) =>
                /\ s.proxy_forwarded_address_header = None
                /\ s.proxy_forwarded_port_header = None
                /\ s.proxy_forwarded_proto_header = None

\* --proxy-headers --proxy-headers-port X-Real-Port: only forwarded-port changes
C4_Witness ==
    /\ server # None
    /\ Parsed.proxy_headers
    /\ Parsed.proxy_headers_host = None
    /\ Val(server).proxy_forwarded_port_header = Some("X-Real-Port")
    /\ Val(server).proxy_forwarded_address_header = Some("X-Forwarded-For")

(***************************************************************************)
(* C5.  Access log sink: "-" gives standard output; any other given value  *)
(* gives that path opened for append, line buffered; omitted with          *)
(* verbosity >= 1 gives standard output; omitted with verbosity 0 gives no *)
(* sink, and the server then receives no access logger.                    *)
(***************************************************************************)
C5_AccessLogSink ==
    Done("access_log") =>
        LET p == Parsed
        IN  /\ p.access_log = Some("-") => access_log_stream = Some(StdOut)
            /\ (Truthy(p.access_log) /\ p.access_log # Some("-")) =>
                /\ access_log_stream = p.access_log
                /\ [path |-> Val(p.access_log), mode |-> "a", buffering |-> 1] \in opened
            /\ (~Truthy(p.access_log) /\ p.verbosity >= 1) =>
                access_log_stream = Some(StdOut)
            /\ (~Truthy(p.access_log) /\ p.verbosity = 0) =>
                /\ access_log_stream = None
                /\ server # None => Val(server).action_logger = None

\* -v 0 without --access-log: the server is constructed without access logger
C5_Witness ==
    /\ server # None
    /\ Parsed.verbosity = 0
    /\ Parsed.access_log = None
    /\ Val(server).action_logger = None

(***************************************************************************)
(* C6.  Verbosity 0, 1, 2, 3 configure warn, info, debug, debug; any other *)
(* verbosity fails at the logging configuration, before any access log     *)
(* sink is opened, any directory change, any callback module or            *)
(* application load and any server construction.                           *)
(***************************************************************************)
C6_VerbosityLevels ==
    (Done("parse") /\ pc # "logging") =>
        LET v == Parsed.verbosity
        IN  /\ v = 0 => log_level = Some("WARN")
            /\ v = 1 => log_level = Some("INFO")
            /\ v = 2 => log_level = Some("DEBUG")
            /\ v = 3 => log_level = Some("DEBUG")
            /\ v \notin 0..3 =>
                /\ pc = "failed"
                /\ error = Some("KeyError")
                /\ events = <<"parse">>
                /\ log_level = None
                /\ access_log_stream = None
                /\ opened = {}
                /\ cwd = InitialDir
                /\ callback_module = None
                /\ hook_calls = <<>>
                /\ application = None
                /\ server = None
                /\ server_runs = 0

\* -v 4: the run has failed in the logging configuration
C6_Witness ==
    /\ error = Some("KeyError")
    /\ Parsed.verbosity = 4

(***************************************************************************)
(* C7.  Lifecycle hooks.  when_init is invoked exactly once, after the     *)
(* callback module is loaded and before the application is loaded, when    *)
(* the module is given and exposes it; no hook is invoked otherwise;       *)
(* when_ready is never invoked by run() and is handed to the server by     *)
(* reference, absent when the module is not given or does not expose it.   *)
(***************************************************************************)
C7_ExpectedInitCalls ==
    IF /\ Parsed.callback_module # None
       /\ Modules[Val(Parsed.callback_module)].when_init
    THEN << <<Val(Parsed.callback_module), "when_init">> >>
    ELSE <<>>

C7_LifecycleHooks ==
    /\ \A i \in DOMAIN hook_calls : hook_calls[i][2] # "when_ready"
    /\ ~Done("init_hook") => hook_calls = <<>>
    /\ Done("init_hook") =>
        /\ Done("callback")
        /\ callback_module = Parsed.callback_module
        /\ hook_calls = C7_ExpectedInitCalls
    /\ pc = "application" => application = None
    /\ application # None => Done("init_hook")
    /\ server # None =>
        Val(server).ready_callable =
            IF /\ Parsed.callback_module # None
               /\ Modules[Val(Parsed.callback_module)].when_ready
            THEN Some(<<Val(Parsed.callback_module), "when_ready">>)
            ELSE None

\* a module exposing both hooks: when_init has run once, when_ready is passed on
C7_Witness ==
    /\ server # None
    /\ hook_calls = << <<"hooks_both", "when_init">> >>
    /\ Val(server).ready_callable = Some(<<"hooks_both", "when_ready">>)

(***************************************************************************)
(* C8 as stated.  When run() fails with the proxy header error, no access  *)
(* log file has been opened, the working directory has not been changed,   *)
(* no callback module has been loaded or on-init hook invoked, and no      *)
(* application has been loaded.                                            *)
(***************************************************************************)
C8_ProxyErrorBeforeResources ==
    ProxyError =>
        /\ opened = {}
        /\ cwd = InitialDir
        /\ callback_module = None
        /\ hook_calls = <<>>
        /\ application = None

(***************************************************************************)
(* C8 as amended.  Every error ends run() at once, and the proxy header    *)
(* error is raised while the arguments of the server constructor are       *)
(* evaluated: no server has been constructed or run, and the access log    *)
(* sink, the directory change, the callback module with its on-init hook   *)
(* and the application load are already done.                              *)
(***************************************************************************)
C8_ProxyErrorAfterSetup ==
    /\ error # None => pc = "failed"
    /\ ProxyError =>
        /\ server = None
        /\ server_runs = 0
        /\ SubSeq(events, 1, Len(StepsBeforeProxyCheck)) = StepsBeforeProxyCheck
        /\ application = Some(Parsed.application)
        /\ Truthy(Parsed.access_log) /\ Parsed.access_log # Some("-") =>
               [path |-> Val(Parsed.access_log), mode |-> "a", buffering |-> 1] \in opened
        /\ Truthy(Parsed.chdir) => cwd = Val(Parsed.chdir)
        /\ callback_module = Parsed.callback_module
        /\ hook_calls = C7_ExpectedInitCalls

\* the proxy header error with the access log file already opened
C8_Witness ==
    /\ ProxyError
    /\ opened # {}

(***************************************************************************)
(* C9.  The server is constructed at most once and run at most once, only  *)
(* after every earlier step has completed in order; when a step fails no   *)
(* server has been constructed and none is run; no step is retried.        *)
(***************************************************************************)
C9_SingleHandoff ==
    /\ server_runs <= 1
    /\ \A i, j \in DOMAIN events : events[i] = events[j] => i = j
    /\ server # None =>
        /\ Len(events) >= Len(StepsBeforeServer) + 1
        /\ SubSeq(events, 1, Len(StepsBeforeServer)) = StepsBeforeServer
        /\ events[Len(StepsBeforeServer) + 1] = "server"
        /\ error = None
    /\ server_runs = 1 =>
        /\ server # None
        /\ events = StepsBeforeServer \o <<"server", "run">>
    /\ error # None =>
        /\ pc = "failed"
        /\ server = None
        /\ server_runs = 0

\* the hand-off has happened
C9_Witness ==
    /\ server_runs = 1
    /\ pc = "serving"

====
